---- MODULE Spec2Model ----
(***************************************************************************)
(* The two MDPs of src/mdp.py (TomAndJerry, BitStrings) and the three      *)
(* solvers that use them (value iteration, policy iteration, Q-learning).  *)
(*                                                                         *)
(* Representation.                                                         *)
(*  - A grid state (r, c) is the tuple <<r, c>>; a bit-string is the tuple *)
(*    of its nine characters, each 0 or 1 ("010..." is <<0,1,0,...>>).     *)
(*  - Python lists are 0-indexed, TLA+ sequences 1-indexed: dx[a] of the   *)
(*    code is dx[a + 1] here, state[action] is state[action + 1].          *)
(*  - A probability is a number of ProbDen-ths (1/3 is 2, 0.5 is 3).       *)
(*  - random.choice / random.randint / random.random are nondeterministic  *)
(*    choices (\E) over the values they can return.                        *)
(***************************************************************************)
EXTENDS Integers, Sequences, FiniteSets, TLC

VARIABLES
    mdp,      \* the class of the environment object
    jerry,    \* TomAndJerry.jerry
    state,    \* BitStrings.state
    ret,      \* the last call of reset or step and what it returned
    probe,    \* a get_transition_prob query and the sum of its answers
    solver,   \* the solver constructed on the environment, if any
    pc,       \* the solver's position in __call__
    gamma, epsilon, alpha, eps, num_episodes,   \* the solver's parameters
    V, policy, Q,                               \* the solver's tables
    delta, mean_state_values, mean_policy_changes,
    cur_s, cur_a, episode_end, episode,         \* locals s, a, ... of QLearning.__call__
    sweeps,   \* the sweeps over the states made so far (VI, PI evaluation)
    steps     \* the environment transitions made so far (Q-learning)

envVars == <<mdp, jerry, state, ret, probe>>

solverVars == <<solver, pc, gamma, epsilon, alpha, eps, num_episodes, V, policy, Q,
                delta, mean_state_values, mean_policy_changes, cur_s, cur_a,
                episode_end, episode, sweeps, steps>>

vars == <<envVars, solverVars>>

\* Inputs of step are drawn from ActSlack below the smallest to ActSlack above
\* the largest declared action.
ActSlack == 1

\* Probabilities are counted in ProbDen-ths: 1/3 and 0.5 are both whole.
ProbDen == 2 * 3

(***************************************************************************)
(* TomAndJerry                                                             *)
(***************************************************************************)
tom == <<1, 3>>

cheeze == <<2, 3>>

traps == {<<2, 2>>, <<3, 0>>}

allowed_actions == {0, 1, 2, 3}

dx == <<-1, 0, 1, 0>>

dy == <<0, 1, 0, -1>>

\* range(4) x range(4) in the order of the two nested loops
TJ_cells == [i \in 1..16 |-> <<(i - 1) \div 4, (i - 1) % 4>>]

TJ_not_trap(cell) == cell \notin traps

TJ_allowed_states == SelectSeq(TJ_cells, TJ_not_trap)

TJ_allowed_actions == <<0, 1, 2, 3>>

TJ_terminal_states == {tom, cheeze}

\* TJ_free with the trap test left out
TJ_free_ignores_traps(new) ==
    /\ 0 <= new[1] /\ new[1] <= 3
    /\ 0 <= new[2] /\ new[2] <= 3

\* the condition under which a move to (new_x, new_y) happens
TJ_free(new) ==
    /\ new \notin traps
    /\ 0 <= new[1] /\ new[1] <= 3
    /\ 0 <= new[2] /\ new[2] <= 3

TJ_possible_actions(action) ==
    (IF action % 2 = 0 THEN {1, 3} ELSE {0, 2}) \cup {action}

TJ_possible_next_states(s, action) ==
    {new \in {<<s[1] + dx[a + 1], s[2] + dy[a + 1]>> : a \in TJ_possible_actions(action)} :
        TJ_free(new)}

\* TJ_get_transition_prob without the terminal-state test
TJ_get_transition_prob_no_terminal_test(s, action, next_state) ==
    IF s[1] < 0 \/ s[1] > 3 \/ s[2] < 0 \/ s[2] > 3 THEN 0
    ELSE IF action \notin allowed_actions THEN 0
    ELSE IF next_state \in TJ_possible_next_states(s, action) THEN ProbDen \div 3
    ELSE 0

TJ_get_transition_prob(s, action, next_state) ==
    IF s[1] < 0 \/ s[1] > 3 \/ s[2] < 0 \/ s[2] > 3 THEN 0
    ELSE IF action \notin allowed_actions THEN 0
    ELSE IF s \in TJ_terminal_states THEN 0
    ELSE IF next_state \in TJ_possible_next_states(s, action) THEN ProbDen \div 3
    ELSE 0

TJ_get_reward(s, action, next_state) ==
    IF next_state = tom THEN -1
    ELSE IF next_state = cheeze THEN 1
    ELSE 0

TJ_start == <<0, 0>>

\* What a call does: cur is the object's state after it, (s, r, done) what it
\* returns; a call that raises returns nothing and raised is TRUE.
Returns(cur, s, r, done) ==
    [cur |-> cur, s |-> s, r |-> r, done |-> done, raised |-> FALSE]

Raises(cur) == [cur |-> cur, s |-> <<>>, r |-> 0, done |-> FALSE, raised |-> TRUE]

TJ_reset(j) == Returns(TJ_start, TJ_start, 0, FALSE)

\* TJ_move that never sets episode_end
TJ_move_never_ends(j, a) ==
    LET new == <<j[1] + dx[a + 1], j[2] + dy[a + 1]>>
    IN  IF TJ_free(new)
        THEN Returns(new, new, TJ_get_reward(j, a, new), FALSE)
        ELSE Returns(j, j, 0, FALSE)

\* the body of step after the direction `a` has been drawn
TJ_move(j, a) ==
    LET new == <<j[1] + dx[a + 1], j[2] + dy[a + 1]>>
    IN  IF TJ_free(new)
        THEN Returns(new, new, TJ_get_reward(j, a, new), TJ_get_reward(j, a, new) # 0)
        ELSE Returns(j, j, 0, FALSE)

\* TJ_step with the ended-episode test ahead of the action test
TJ_step_ended_first(j, action) ==
    IF j \in TJ_terminal_states THEN {Returns(j, j, 0, TRUE)}
    ELSE IF action \notin allowed_actions THEN {Raises(j)}
    ELSE {TJ_move(j, a) : a \in TJ_possible_actions(action)}

\* every outcome of step(action) with Jerry at j
TJ_step(j, action) ==
    IF action \notin allowed_actions THEN {Raises(j)}
    ELSE IF j \in TJ_terminal_states THEN {Returns(j, j, 0, TRUE)}
    ELSE {TJ_move(j, a) : a \in TJ_possible_actions(action)}

\* the probability (in ProbDen-ths) with which step(action), Jerry at j,
\* returns next_state: random.choice draws each of the three directions with
\* probability 1/3
TJ_step_prob(j, action, next_state) ==
    IF action \notin allowed_actions THEN 0
    ELSE IF j \in TJ_terminal_states THEN (IF next_state = j THEN ProbDen ELSE 0)
    ELSE Cardinality({a \in TJ_possible_actions(action) : TJ_move(j, a).s = next_state})
            * (ProbDen \div 3)

(***************************************************************************)
(* BitStrings                                                              *)
(***************************************************************************)
StrLen == 9

positive_terminal_states == {<<0, 1, 0, 1, 0, 1, 0, 1, 0>>, <<1, 0, 1, 0, 1, 0, 1, 0, 1>>}

negative_terminal_states == {<<1, 1, 1, 1, 1, 1, 1, 1, 1>>}

RECURSIVE BS_generate_allowed_states(_)
BS_generate_allowed_states(s) ==
    IF Len(s) = StrLen THEN <<s>>
    ELSE BS_generate_allowed_states(Append(s, 1))
            \o BS_generate_allowed_states(Append(s, 0))

BS_allowed_states == BS_generate_allowed_states(<<>>)

BS_allowed_actions == [i \in 1..StrLen |-> i - 1]

BS_terminal_states == positive_terminal_states \cup negative_terminal_states

\* state[0:action] + str(1 - int(state[action])) + state[action+1:]
BS_flip(s, action) == [s EXCEPT ![action + 1] = 1 - s[action + 1]]

BS_possible_next_states(s, action) ==
    {BS_flip(s, action)}
        \cup (IF action < StrLen - 1 THEN {BS_flip(s, action + 1)} ELSE {})

BS_get_transition_prob(s, action, next_state) ==
    IF action < 0 \/ action > StrLen - 1 THEN 0
    ELSE IF s \in BS_terminal_states THEN 0
    ELSE IF next_state \in BS_possible_next_states(s, action) THEN ProbDen \div 2
    ELSE 0

BS_get_reward(s, action, next_state) ==
    IF next_state \in negative_terminal_states THEN -2
    ELSE IF next_state \in positive_terminal_states THEN 1
    ELSE 0

BS_start == [i \in 1..StrLen |-> 0]

BS_step_choice(action) ==
    IF action < StrLen - 1 THEN {action, action + 1} ELSE {action}

\* BS_reset that returns the current string without reinitialising it
BS_reset_keeps_state(s) == Returns(s, s, 0, FALSE)

BS_reset(s) == Returns(BS_start, BS_start, 0, FALSE)

BS_move(s, a) ==
    LET next_state == BS_flip(s, a)
    IN  Returns(next_state, next_state, BS_get_reward(s, a, next_state),
                BS_get_reward(s, a, next_state) # 0)

\* BS_step without the ended-episode test
BS_step_no_ended_test(s, action) ==
    IF action < 0 \/ action > StrLen - 1 THEN {Raises(s)}
    ELSE {BS_move(s, a) : a \in BS_step_choice(action)}

\* every outcome of step(action) with the object's string at s
BS_step(s, action) ==
    IF action < 0 \/ action > StrLen - 1 THEN {Raises(s)}
    ELSE IF s \in BS_terminal_states THEN {Returns(s, s, 0, TRUE)}
    ELSE {BS_move(s, a) : a \in BS_step_choice(action)}

\* the probability (in ProbDen-ths) with which step(action), the string at s,
\* returns next_state: random.choice draws each of action and action + 1 with
\* probability 0.5, the last bit is flipped for sure
BS_step_prob(s, action, next_state) ==
    IF action < 0 \/ action > StrLen - 1 THEN 0
    ELSE IF s \in BS_terminal_states THEN (IF next_state = s THEN ProbDen ELSE 0)
    ELSE Cardinality({a \in BS_step_choice(action) : BS_move(s, a).s = next_state})
            * (ProbDen \div Cardinality(BS_step_choice(action)))

(***************************************************************************)
(* The MDP interface, dispatched on the class of the object                *)
(***************************************************************************)
MDPs == {"TomAndJerry", "BitStrings"}

get_allowed_states(m) ==
    IF m = "TomAndJerry" THEN TJ_allowed_states ELSE BS_allowed_states

get_allowed_actions(m) ==
    IF m = "TomAndJerry" THEN TJ_allowed_actions ELSE BS_allowed_actions

get_terminal_states(m) ==
    IF m = "TomAndJerry" THEN TJ_terminal_states ELSE BS_terminal_states

get_transition_prob(m, s, action, next_state) ==
    IF m = "TomAndJerry" THEN TJ_get_transition_prob(s, action, next_state)
    ELSE BS_get_transition_prob(s, action, next_state)

get_reward(m, s, action, next_state) ==
    IF m = "TomAndJerry" THEN TJ_get_reward(s, action, next_state)
    ELSE BS_get_reward(s, action, next_state)

Range(f) == {f[i] : i \in DOMAIN f}

StateSet(m) == Range(get_allowed_states(m))

ActionSet(m) == Range(get_allowed_actions(m))

\* the current state of the environment object
Cur == IF mdp = "TomAndJerry" THEN jerry ELSE state

StartState(m) == IF m = "TomAndJerry" THEN TJ_start ELSE BS_start

reset(m, s) == IF m = "TomAndJerry" THEN TJ_reset(s) ELSE BS_reset(s)

step(m, s, action) ==
    IF m = "TomAndJerry" THEN TJ_step(s, action) ELSE BS_step(s, action)

step_prob(m, s, action, next_state) ==
    IF m = "TomAndJerry" THEN TJ_step_prob(s, action, next_state)
    ELSE BS_step_prob(s, action, next_state)

\* the actions a caller may hand to step, declared or not
ActionInputs(m) == (0 - ActSlack) .. (Len(get_allowed_actions(m)) - 1 + ActSlack)

(***************************************************************************)
(* Specification Spec: one environment object under any sequence of reset  *)
(* and step calls. ret records the last call: the operation, its argument, *)
(* the object's state before it (pre) and what it returned or that it      *)
(* raised.                                                                 *)
(***************************************************************************)
NoProbe == [m |-> "none", s |-> <<>>, a |-> 0, total |-> 0, mismatch |-> {}, done |-> FALSE]

NoCall == [op |-> "init", action |-> 0, pre |-> <<>>, s |-> <<>>, r |-> 0,
           done |-> FALSE, raised |-> FALSE]

\* no solver is constructed on the environment
NoSolver ==
    /\ solver = "none" /\ pc = "none"
    /\ gamma = <<0, 1>> /\ epsilon = 0 /\ alpha = <<0, 1>> /\ eps = 0
    /\ num_episodes = 0
    /\ V = <<>> /\ policy = <<>> /\ Q = <<>>
    /\ delta = 0 /\ mean_state_values = <<>> /\ mean_policy_changes = <<>>
    /\ cur_s = <<>> /\ cur_a = 0 /\ episode_end = FALSE /\ episode = 0
    /\ sweeps = 0 /\ steps = 0

Init ==
    /\ mdp \in MDPs
    /\ jerry = TJ_start
    /\ state = BS_start
    /\ ret = NoCall
    /\ probe = NoProbe
    /\ NoSolver

SetCur(s) ==
    IF mdp = "TomAndJerry"
    THEN jerry' = s /\ UNCHANGED state
    ELSE state' = s /\ UNCHANGED jerry

Called(op, action, out) ==
    [op |-> op, action |-> action, pre |-> Cur, s |-> out.s, r |-> out.r,
     done |-> out.done, raised |-> out.raised]

Reset ==
    LET out == reset(mdp, Cur)
    IN  /\ SetCur(out.cur)
        /\ ret' = Called("reset", 0, out)
        /\ UNCHANGED <<mdp, probe, solverVars>>

Step ==
    \E action \in ActionInputs(mdp) :
        \E out \in step(mdp, Cur, action) :
            /\ SetCur(out.cur)
            /\ ret' = Called("step", action, out)
            /\ UNCHANGED <<mdp, probe, solverVars>>

Next == Reset \/ Step

Spec == Init /\ [][Next]_vars

(***************************************************************************)
(* Specification SpecProb: get_transition_prob as a pure function. Init    *)
(* draws the object, a state and an action; Query sums the probability     *)
(* over every allowed next state and collects the next states to which     *)
(* step, taken in that state with that action, goes with another           *)
(* probability.                                                            *)
(***************************************************************************)
\* the sum over allowed_states[lo..hi], split in halves to keep the recursion
\* shallow
RECURSIVE SumProb(_, _, _, _, _)
SumProb(m, s, action, lo, hi) ==
    IF lo > hi THEN 0
    ELSE IF lo = hi THEN get_transition_prob(m, s, action, get_allowed_states(m)[lo])
    ELSE LET mid == (lo + hi) \div 2
         IN  SumProb(m, s, action, lo, mid) + SumProb(m, s, action, mid + 1, hi)

InitProb ==
    /\ mdp \in MDPs
    /\ jerry = TJ_start
    /\ state = BS_start
    /\ ret = NoCall
    /\ \E s \in StateSet(mdp), a \in ActionInputs(mdp) :
        probe = [m |-> mdp, s |-> s, a |-> a, total |-> 0, mismatch |-> {}, done |-> FALSE]
    /\ NoSolver

Query ==
    /\ ~probe.done
    /\ probe' = [probe EXCEPT
                    !.total = SumProb(probe.m, probe.s, probe.a, 1,
                                      Len(get_allowed_states(probe.m))),
                    !.mismatch =
                        {n \in StateSet(probe.m) :
                            get_transition_prob(probe.m, probe.s, probe.a, n)
                                # step_prob(probe.m, probe.s, probe.a, n)},
                    !.done = TRUE]
    /\ UNCHANGED <<mdp, jerry, state, ret, solverVars>>

NextProb == Query

SpecProb == InitProb /\ [][NextProb]_vars

(***************************************************************************)
(* Arithmetic of the solvers. A float is a whole number of Scale-ths        *)
(* (fixed point, every product rounded down); a parameter is a fraction     *)
(* <<numerator, denominator>>.                                              *)
(***************************************************************************)
Scale == 10 ^ 6

Mul(frac, x) == (frac[1] * x) \div frac[2]

Abs(x) == IF x < 0 THEN 0 - x ELSE x

Max2(x, y) == IF x < y THEN y ELSE x

\* max(list), for a list that is not empty
RECURSIVE MaxFrom(_, _, _)
MaxFrom(list, i, m) ==
    IF i > Len(list) THEN m ELSE MaxFrom(list, i + 1, Max2(m, list[i]))

ListMax(list) == MaxFrom(list, 2, list[1])

\* list.index(x), counted from 0 as in the code: the first occurrence
\* (index_from_one counts from 1 instead)
index_from_one(list, x) ==
    CHOOSE i \in DOMAIN list : list[i] = x /\ \A j \in 1..(i - 1) : list[j] # x

index(list, x) ==
    (CHOOSE i \in DOMAIN list : list[i] = x /\ \A j \in 1..(i - 1) : list[j] # x) - 1

\* the values gamma and epsilon are given in the experiments
Gammas == {<<9, 10>>, <<1, 1>>}

Epsilons == {Scale \div 10000, Scale \div 10}

ZeroV == [st \in StateSet(mdp) |-> 0]

(***************************************************************************)
(* __Q, shared by ValueIteration and PolicyIteration                       *)
(***************************************************************************)
\* one term of the sum of __Q
Q_term(Vf, s, action, s_prime) ==
    (get_transition_prob(mdp, s, action, s_prime)
        * (get_reward(mdp, s, action, s_prime) * Scale + Mul(gamma, Vf[s_prime])))
    \div ProbDen

\* the sum over allowed_states[lo..hi], split in halves
RECURSIVE Q_sum(_, _, _, _, _)
Q_sum(Vf, s, action, lo, hi) ==
    IF lo > hi THEN 0
    ELSE IF lo = hi THEN Q_term(Vf, s, action, get_allowed_states(mdp)[lo])
    ELSE LET mid == (lo + hi) \div 2
         IN  Q_sum(Vf, s, action, lo, mid) + Q_sum(Vf, s, action, mid + 1, hi)

Q_value(Vf, s, action) == Q_sum(Vf, s, action, 1, Len(get_allowed_states(mdp)))

\* [self.__Q(s, a) for a in self.allowed_actions]
Q_row(Vf, s) ==
    [i \in DOMAIN get_allowed_actions(mdp) |-> Q_value(Vf, s, get_allowed_actions(mdp)[i])]

\* Q_s.index(max(Q_s))
Greedy(Vf, s) == index(Q_row(Vf, s), ListMax(Q_row(Vf, s)))

RECURSIVE SumV(_, _)
SumV(Vf, i) == IF i = 0 THEN 0 ELSE SumV(Vf, i - 1) + Vf[get_allowed_states(mdp)[i]]

\* sum(self.V.values()) / len(self.V)
get_mean_V(Vf) == SumV(Vf, Len(get_allowed_states(mdp))) \div Len(get_allowed_states(mdp))

(***************************************************************************)
(* ValueIteration                                                          *)
(***************************************************************************)
\* the for loop of one sweep from allowed_states[i] on, V updated in place
RECURSIVE VI_sweep(_, _, _)
VI_sweep(Vf, d, i) ==
    IF i > Len(get_allowed_states(mdp)) THEN [V |-> Vf, delta |-> d]
    ELSE LET st == get_allowed_states(mdp)[i]
             new_v == ListMax(Q_row(Vf, st))
         IN  VI_sweep([Vf EXCEPT ![st] = new_v], Max2(d, Abs(Vf[st] - new_v)), i + 1)

VI_Call ==
    /\ solver = "VI" /\ pc = "call"
    /\ mean_state_values' = <<get_mean_V(V)>>
    /\ pc' = "sweep"
    /\ UNCHANGED <<envVars, solver, gamma, epsilon, alpha, eps, num_episodes, V, policy,
                   Q, delta, mean_policy_changes, cur_s, cur_a, episode_end, episode,
                   sweeps, steps>>

\* VI_Sweep that leaves the loop before it appends the snapshot
VI_Sweep_breaks_first ==
    /\ solver = "VI" /\ pc = "sweep"
    /\ \E r \in {VI_sweep(V, 0, 1)} :
           /\ V' = r.V
           /\ delta' = r.delta
           /\ mean_state_values' =
                IF r.delta < epsilon THEN mean_state_values
                ELSE Append(mean_state_values, get_mean_V(r.V))
           /\ pc' = IF r.delta < epsilon THEN "policy" ELSE "sweep"
    /\ sweeps' = sweeps + 1
    /\ UNCHANGED <<envVars, solver, gamma, epsilon, alpha, eps, num_episodes, policy,
                   Q, mean_policy_changes, cur_s, cur_a, episode_end, episode, steps>>

VI_Sweep ==
    /\ solver = "VI" /\ pc = "sweep"
    /\ \E r \in {VI_sweep(V, 0, 1)} :
           /\ V' = r.V
           /\ delta' = r.delta
           /\ mean_state_values' = Append(mean_state_values, get_mean_V(r.V))
           /\ pc' = IF r.delta < epsilon THEN "policy" ELSE "sweep"
    /\ sweeps' = sweeps + 1
    /\ UNCHANGED <<envVars, solver, gamma, epsilon, alpha, eps, num_episodes, policy,
                   Q, mean_policy_changes, cur_s, cur_a, episode_end, episode, steps>>

VI_Policy ==
    /\ solver = "VI" /\ pc = "policy"
    /\ policy' = [st \in StateSet(mdp) |-> Greedy(V, st)]
    /\ pc' = "done"
    /\ UNCHANGED <<envVars, solver, gamma, epsilon, alpha, eps, num_episodes, V, Q,
                   delta, mean_state_values, mean_policy_changes, cur_s, cur_a,
                   episode_end, episode, sweeps, steps>>

(***************************************************************************)
(* PolicyIteration                                                         *)
(***************************************************************************)
\* the for loop of one sweep of __evaluate_policy from allowed_states[i] on
RECURSIVE PI_sweep(_, _, _)
PI_sweep(Vf, d, i) ==
    IF i > Len(get_allowed_states(mdp)) THEN [V |-> Vf, delta |-> d]
    ELSE LET st == get_allowed_states(mdp)[i]
             new_v == Q_value(Vf, st, policy[st])
         IN  PI_sweep([Vf EXCEPT ![st] = new_v], Max2(d, Abs(Vf[st] - new_v)), i + 1)

\* policy_change without the abs: differences of opposite sign cancel
policy_change_signed(old_a, new_a) == old_a - new_a

\* | old_a - new_a |
policy_change(old_a, new_a) == Abs(old_a - new_a)

\* the for loop of __policy_update from allowed_states[i] on
RECURSIVE PI_update(_, _, _)
PI_update(pol, total, i) ==
    IF i > Len(get_allowed_states(mdp)) THEN [policy |-> pol, total |-> total]
    ELSE LET st == get_allowed_states(mdp)[i]
             new_a == Greedy(V, st)
         IN  PI_update([pol EXCEPT ![st] = new_a],
                       total + policy_change(pol[st], new_a), i + 1)

\* mean_change with an integer division
mean_change_floor(total) == total \div Len(get_allowed_states(mdp))

\* total_policy_change / len(self.allowed_states)
mean_change(total) == (total * Scale) \div Len(get_allowed_states(mdp))

\* __evaluate_policy: V reset to 0
PI_Evaluate ==
    /\ solver = "PI" /\ pc = "call"
    /\ V' = ZeroV
    /\ pc' = "eval"
    /\ UNCHANGED <<envVars, solver, gamma, epsilon, alpha, eps, num_episodes, policy, Q,
                   delta, mean_state_values, mean_policy_changes, cur_s, cur_a,
                   episode_end, episode, sweeps, steps>>

\* __evaluate_policy: one pass of its while loop
PI_EvalSweep ==
    /\ solver = "PI" /\ pc = "eval"
    /\ \E r \in {PI_sweep(V, 0, 1)} :
           /\ V' = r.V
           /\ delta' = r.delta
           /\ pc' = IF r.delta < epsilon THEN "update" ELSE "eval"
    /\ sweeps' = sweeps + 1
    /\ UNCHANGED <<envVars, solver, gamma, epsilon, alpha, eps, num_episodes, policy, Q,
                   mean_state_values, mean_policy_changes, cur_s, cur_a, episode_end,
                   episode, steps>>

PI_PolicyUpdate ==
    /\ solver = "PI" /\ pc = "update"
    /\ \E r \in {PI_update(policy, 0, 1)} :
           /\ policy' = r.policy
           /\ mean_policy_changes' = Append(mean_policy_changes, mean_change(r.total))
           /\ pc' = IF mean_change(r.total) = 0 THEN "done" ELSE "call"
    /\ UNCHANGED <<envVars, solver, gamma, epsilon, alpha, eps, num_episodes, V, Q,
                   delta, mean_state_values, cur_s, cur_a, episode_end, episode,
                   sweeps, steps>>

\* The random policies a PolicyIteration object is constructed with are drawn
\* from: any action for each of the first FreeStates allowed states, one
\* common action for the others.
FreeStates == 1

InitPolicies ==
    LET free == {get_allowed_states(mdp)[i] : i \in 1..FreeStates}
    IN  {[st \in StateSet(mdp) |-> IF st \in free THEN f[st] ELSE b] :
            f \in [free -> ActionSet(mdp)], b \in ActionSet(mdp)}

(***************************************************************************)
(* QLearning                                                               *)
(*                                                                         *)
(* The diagnostic list mean_state_values of QLearning.__call__ is not      *)
(* modelled: __call__ only appends to it (one entry before the loop, one   *)
(* per transition, so steps + 1 entries) and nothing it does reads it. pc  *)
(* is "for" at the head of the for loop, "reset" between the decay of eps  *)
(* and the call of reset, "while" at the head of the while loop, "error"   *)
(* once step has raised and "done" after the return.                       *)
(***************************************************************************)
\* A run makes at most MaxSteps environment transitions and is given at most
\* MaxEpisodes episodes.
MaxSteps == 4

MaxEpisodes == 2

\* the values alpha and eps are given in the experiments; gamma is left at
\* its default
Alphas == {<<1, 100>>}

EpsInits == {Scale \div 2, Scale}

DefaultGamma == <<9, 10>>

\* 0.9995
Decay == <<1999, 2000>>

ZeroQ == [st \in StateSet(mdp) |-> [i \in DOMAIN get_allowed_actions(mdp) |-> 0]]

\* random.randint(0, len(self.allowed_actions) - 1), both ends included
\* (randint_one_more also returns len(self.allowed_actions))
randint_one_more == 0..Len(get_allowed_actions(mdp))

randint == 0..(Len(get_allowed_actions(mdp)) - 1)

\* every action __select_action(s) can return: random.random() is in [0, 1),
\* so p < eps can happen when eps > 0 and p >= eps when eps < 1
select_action(s) ==
    (IF eps > 0 THEN randint ELSE {})
        \cup (IF eps < Scale THEN {index(Q[s], ListMax(Q[s]))} ELSE {})

\* the one-step TD update of Q[s][a]
TD_update(Qf, s, action, r, s_prime) ==
    [Qf EXCEPT ![s][action + 1] =
        @ + Mul(alpha, r * Scale + Mul(gamma, ListMax(Qf[s_prime])) - @)]

\* __get_V: V[s] = max(Q[s])
get_V(Qf) == [st \in StateSet(mdp) |-> ListMax(Qf[st])]

\* the head of one pass of the for loop: the decay of eps
QL_Episode ==
    /\ solver = "QL" /\ pc = "for" /\ episode < num_episodes
    /\ episode' = episode + 1
    /\ eps' = Mul(Decay, eps)
    /\ pc' = "reset"
    /\ UNCHANGED <<envVars, solver, gamma, epsilon, alpha, num_episodes, V, policy, Q,
                   delta, mean_state_values, mean_policy_changes, cur_s, cur_a,
                   episode_end, sweeps, steps>>

\* s, _, episode_end = self.mdp.reset()
QL_Reset ==
    /\ solver = "QL" /\ pc = "reset"
    /\ \E out \in {reset(mdp, Cur)} :
        /\ SetCur(out.cur)
        /\ cur_s' = out.s
        /\ episode_end' = out.done
        /\ pc' = IF out.done THEN "for" ELSE "while"
    /\ UNCHANGED <<mdp, ret, probe, solver, gamma, epsilon, alpha, eps, num_episodes, V,
                   policy, Q, delta, mean_state_values, mean_policy_changes, cur_a,
                   episode, sweeps, steps>>

\* QL_Step that decays eps at every transition
QL_Step_decays_eps ==
    /\ solver = "QL" /\ pc = "while" /\ steps < MaxSteps
    /\ steps' = steps + 1
    /\ eps' = Mul(Decay, eps)
    /\ \E action \in select_action(cur_s) :
        \E out \in step(mdp, Cur, action) :
            /\ cur_a' = action
            /\ SetCur(out.cur)
            /\ IF out.raised
               THEN /\ pc' = "error"
                    /\ UNCHANGED <<Q, cur_s, episode_end>>
               ELSE \E newQ \in {TD_update(Q, cur_s, action, out.r, out.s)} :
                    /\ Q' = newQ
                    /\ cur_s' = out.s
                    /\ episode_end' = out.done
                    /\ pc' = IF out.done THEN "for" ELSE "while"
    /\ UNCHANGED <<mdp, ret, probe, solver, gamma, epsilon, alpha, num_episodes, V,
                   policy, delta, mean_state_values, mean_policy_changes, episode,
                   sweeps>>

\* one pass of the while loop; an exception of step leaves __call__
QL_Step ==
    /\ solver = "QL" /\ pc = "while" /\ steps < MaxSteps
    /\ steps' = steps + 1
    /\ \E action \in select_action(cur_s) :
        \E out \in step(mdp, Cur, action) :
            /\ cur_a' = action
            /\ SetCur(out.cur)
            /\ IF out.raised
               THEN /\ pc' = "error"
                    /\ UNCHANGED <<Q, cur_s, episode_end>>
               ELSE \E newQ \in {TD_update(Q, cur_s, action, out.r, out.s)} :
                    /\ Q' = newQ
                    /\ cur_s' = out.s
                    /\ episode_end' = out.done
                    /\ pc' = IF out.done THEN "for" ELSE "while"
    /\ UNCHANGED <<mdp, ret, probe, solver, gamma, epsilon, alpha, eps, num_episodes, V,
                   policy, delta, mean_state_values, mean_policy_changes, episode,
                   sweeps>>

\* after the for loop: the greedy policy
QL_Policy ==
    /\ solver = "QL" /\ pc = "for" /\ episode = num_episodes
    /\ policy' = [st \in StateSet(mdp) |-> index(Q[st], ListMax(Q[st]))]
    /\ pc' = "done"
    /\ UNCHANGED <<envVars, solver, gamma, epsilon, alpha, eps, num_episodes, V, Q,
                   delta, mean_state_values, mean_policy_changes, cur_s, cur_a,
                   episode_end, episode, sweeps, steps>>

(***************************************************************************)
(* Specification SpecSolve: a solver constructed on an environment and     *)
(* called once.                                                            *)
(***************************************************************************)
InitVI ==
    /\ solver = "VI" /\ pc = "call"
    /\ mdp = "TomAndJerry"
    /\ gamma \in Gammas /\ epsilon \in Epsilons
    /\ alpha = <<0, 1>> /\ eps = 0 /\ num_episodes = 0
    /\ V = ZeroV /\ policy = <<>> /\ Q = <<>>
    /\ delta = 0 /\ mean_state_values = <<>> /\ mean_policy_changes = <<>>
    /\ cur_s = <<>> /\ cur_a = 0 /\ episode_end = FALSE /\ episode = 0
    /\ sweeps = 0 /\ steps = 0

InitPI ==
    /\ solver = "PI" /\ pc = "call"
    /\ mdp = "TomAndJerry"
    /\ gamma \in Gammas /\ epsilon \in Epsilons
    /\ alpha = <<0, 1>> /\ eps = 0 /\ num_episodes = 0
    /\ V = <<>> /\ policy \in InitPolicies /\ Q = <<>>
    /\ delta = 0 /\ mean_state_values = <<>> /\ mean_policy_changes = <<>>
    /\ cur_s = <<>> /\ cur_a = 0 /\ episode_end = FALSE /\ episode = 0
    /\ sweeps = 0 /\ steps = 0

InitQL ==
    /\ solver = "QL" /\ pc = "for"
    /\ mdp \in MDPs
    /\ gamma = DefaultGamma /\ epsilon = 0
    /\ alpha \in Alphas /\ eps \in EpsInits /\ num_episodes \in 0..MaxEpisodes
    /\ V = <<>> /\ policy = <<>> /\ Q = ZeroQ
    /\ delta = 0 /\ mean_state_values = <<>> /\ mean_policy_changes = <<>>
    /\ cur_s = <<>> /\ cur_a = 0 /\ episode_end = FALSE /\ episode = 0
    /\ sweeps = 0 /\ steps = 0

InitSolve ==
    /\ jerry = TJ_start
    /\ state = BS_start
    /\ ret = NoCall
    /\ probe = NoProbe
    /\ (InitVI \/ InitPI \/ InitQL)

NextSolve ==
    \/ VI_Call \/ VI_Sweep \/ VI_Policy
    \/ PI_Evaluate \/ PI_EvalSweep \/ PI_PolicyUpdate
    \/ QL_Episode \/ QL_Reset \/ QL_Step \/ QL_Policy

SpecSolve == InitSolve /\ [][NextSolve]_vars

(***************************************************************************)
(* Specification SpecLive: one call of Q-learning on TomAndJerry with an   *)
(* episode budget of one, the transitions of the episode not counted (steps*)
(* stays 0), so that an episode may go on for as long as the code lets it. *)
(* Until the episode ends no reward is seen and Q stays 0. eps is drawn    *)
(* from the values of the experiments and 0 (no exploration).              *)
(*                                                                         *)
(* Fairness. __call__ runs to completion, so a step that can be taken is   *)
(* taken (WF). The random draws of __select_action and of step are         *)
(* independent with fixed positive probabilities, so a move to a cell that *)
(* can be drawn again and again is drawn eventually (SF for every cell).   *)
(***************************************************************************)
\* one pass of the while loop, as QL_Step, not counted in steps
QL_StepFree ==
    /\ solver = "QL" /\ pc = "while"
    /\ \E action \in select_action(cur_s) :
        \E out \in step(mdp, Cur, action) :
            /\ cur_a' = action
            /\ SetCur(out.cur)
            /\ IF out.raised
               THEN /\ pc' = "error"
                    /\ UNCHANGED <<Q, cur_s, episode_end>>
               ELSE \E newQ \in {TD_update(Q, cur_s, action, out.r, out.s)} :
                    /\ Q' = newQ
                    /\ cur_s' = out.s
                    /\ episode_end' = out.done
                    /\ pc' = IF out.done THEN "for" ELSE "while"
    /\ UNCHANGED <<mdp, ret, probe, solver, gamma, epsilon, alpha, eps, num_episodes, V,
                   policy, delta, mean_state_values, mean_policy_changes, episode,
                   sweeps, steps>>

InitLive ==
    /\ jerry = TJ_start
    /\ state = BS_start
    /\ ret = NoCall
    /\ probe = NoProbe
    /\ solver = "QL" /\ pc = "for"
    /\ mdp = "TomAndJerry"
    /\ gamma = DefaultGamma /\ epsilon = 0
    /\ alpha \in Alphas /\ eps \in EpsInits \cup {0} /\ num_episodes = 1
    /\ V = <<>> /\ policy = <<>> /\ Q = ZeroQ
    /\ delta = 0 /\ mean_state_values = <<>> /\ mean_policy_changes = <<>>
    /\ cur_s = <<>> /\ cur_a = 0 /\ episode_end = FALSE /\ episode = 0
    /\ sweeps = 0 /\ steps = 0

NextLive == QL_Episode \/ QL_Reset \/ QL_StepFree \/ QL_Policy

FairLive ==
    /\ WF_vars(NextLive)
    /\ \A c \in Range(TJ_allowed_states) : SF_vars(QL_StepFree /\ jerry' = c)

SpecLive == InitLive /\ [][NextLive]_vars /\ FairLive

(***************************************************************************)
(* Properties                                                              *)
(***************************************************************************)
Ended(s) == s \in get_terminal_states(mdp)

ValidStep == ret.op = "step" /\ ~ret.raised

\* C1 (as claimed): the transition probabilities of a non-terminal allowed
\* state and an allowed action sum to 1 over the allowed next states, those of
\* a terminal state sum to 0.
C1_ProbabilitiesSumToOne ==
    probe.done =>
        IF probe.s \in get_terminal_states(probe.m) THEN probe.total = 0
        ELSE probe.a \in ActionSet(probe.m) => probe.total = ProbDen

\* C2: step with an action outside the declared set raises in every state of
\* the environment, an ended episode included, and leaves the object's state
\* as it was.
C2_InvalidActionRejected ==
    (ret.op = "step" /\ ret.action \notin ActionSet(mdp)) =>
        (ret.raised /\ Cur = ret.pre)

\* an invalid action was handed to step after the episode had ended
C2_Witness ==
    ret.op = "step" /\ ret.action \notin ActionSet(mdp) /\ Ended(ret.pre)

\* C3: a valid step returns done = TRUE exactly when it just obtained a
\* non-zero reward (and then the state entered is terminal) or the episode had
\* ended before the call (and then the reward is 0).
C3_DoneExactly ==
    ValidStep =>
        /\ ret.done <=> (ret.r # 0 \/ Ended(ret.pre))
        /\ ret.r # 0 => (Ended(ret.s) /\ ~Ended(ret.pre))
        /\ Ended(ret.pre) => ret.r = 0

\* a step that just obtained a non-zero reward
C3_Witness == ValidStep /\ ret.done /\ ret.r # 0 /\ ~Ended(ret.pre)

\* C4: a valid step on an ended episode returns the same state with reward 0
\* and done = TRUE and leaves the object's state as it was.
C4_EndedStepIsNoOp ==
    (ValidStep /\ Ended(ret.pre)) =>
        (ret.s = ret.pre /\ ret.r = 0 /\ ret.done /\ Cur = ret.pre)

\* a valid step was taken on an ended episode
C4_Witness == ValidStep /\ Ended(ret.pre) /\ mdp = "BitStrings"

\* C5: reset returns the start state with reward 0 and done = FALSE whatever
\* came before, and the valid step that follows it is one of the steps of a
\* fresh episode from the start state, never the no-op of an ended episode.
C5_ResetRoundTrip ==
    /\ [](ret.op = "reset" =>
            (ret.s = StartState(mdp) /\ ret.r = 0 /\ ~ret.done
                /\ Cur = StartState(mdp)))
    /\ [][(ret.op = "reset" /\ ret'.op = "step" /\ ~ret'.raised) =>
            /\ \E out \in step(mdp, StartState(mdp), ret'.action) :
                /\ ret'.s = out.s /\ ret'.r = out.r /\ ret'.done = out.done
                /\ Cur' = out.cur
            /\ ~ret'.done]_vars

\* reset was called on an ended episode
C5_Witness == ret.op = "reset" /\ Ended(ret.pre)

\* C6: the object's state and every state a call returns are allowed states;
\* on the grid, never a trap cell nor a cell outside the 4x4 grid.
C6_StatesAllowed ==
    /\ Cur \in StateSet(mdp)
    /\ (ret.op # "init" /\ ~ret.raised) => ret.s \in StateSet(mdp)
    /\ jerry \notin traps
    /\ jerry[1] \in 0..3 /\ jerry[2] \in 0..3

\* a move into the trap at (2,2) was attempted and Jerry stayed at (2,1)
C6_Witness ==
    /\ mdp = "TomAndJerry" /\ ValidStep
    /\ ret.pre = <<2, 1>> /\ ret.action = 1 /\ ret.s = <<2, 1>>

\* a is the first index (from 0) at which list takes its maximum
IsFirstArgmax(list, a) ==
    /\ a \in 0..(Len(list) - 1)
    /\ \A j \in DOMAIN list : list[j] <= list[a + 1]
    /\ \A j \in 1..a : list[j] < list[a + 1]

\* __evaluate_policy run to its end on the current policy, from Vf
RECURSIVE EvaluateFrom(_)
EvaluateFrom(Vf) ==
    LET r == PI_sweep(Vf, 0, 1)
    IN  IF r.delta < epsilon THEN r.V ELSE EvaluateFrom(r.V)

\* C7: when policy iteration returns, the policy is in every allowed state
\* the first-maximum argmax of Q(s, .) computed from the returned V, and the
\* returned V is the evaluation of that returned policy.
C7_ReturnedPolicyIsGreedy ==
    (solver = "PI" /\ pc = "done") =>
        /\ \A st \in StateSet(mdp) : IsFirstArgmax(Q_row(V, st), policy[st])
        /\ V = EvaluateFrom(ZeroV)

\* policy iteration returned after more than one improvement pass
C7_Witness == solver = "PI" /\ pc = "done" /\ Len(mean_policy_changes) >= 2

\* C8 (as claimed): the diagnostic sequence value iteration returns has one
\* snapshot per sweep, its length is the number of sweeps.
C8_OneSnapshotPerSweep ==
    (solver = "VI" /\ pc = "done") => Len(mean_state_values) = sweeps

\* C8 (amended): the sequence holds the mean state value before the first
\* sweep and then one snapshot per sweep, so its length is the number of
\* sweeps plus one; the last snapshot is the mean of V after the last sweep,
\* which is the first sweep whose delta is below epsilon.
C8_SnapshotPerSweepAfterInitial ==
    solver = "VI" =>
        /\ pc = "call" => mean_state_values = <<>>
        /\ pc # "call" =>
            /\ Len(mean_state_values) = sweeps + 1
            /\ mean_state_values[1] = 0
            /\ mean_state_values[Len(mean_state_values)] = get_mean_V(V)
        /\ (pc = "sweep" /\ sweeps > 0) => delta >= epsilon
        /\ pc \in {"policy", "done"} => (sweeps >= 1 /\ delta < epsilon)

\* value iteration returned after several sweeps
C8_Witness == solver = "VI" /\ pc = "done" /\ sweeps >= 3

\* C9: every action Q-learning passes to step is a declared action of the
\* environment, and step never raises under Q-learning.
C9_ActionsValid ==
    solver = "QL" =>
        /\ pc # "error"
        /\ steps > 0 => cur_a \in ActionSet(mdp)

\* Q-learning passed the largest declared action of BitStrings to step
C9_Witness ==
    solver = "QL" /\ mdp = "BitStrings" /\ steps > 0 /\ cur_a = StrLen - 1

PolicyTotal ==
    /\ DOMAIN policy = StateSet(mdp)
    /\ \A st \in StateSet(mdp) : policy[st] \in ActionSet(mdp)

\* C10: the policy each solver returns has exactly one entry per allowed
\* state, none for any other state, and only declared actions; the policy of
\* policy iteration is so from its random initialisation on.
C10_PolicyTotal ==
    /\ pc = "done" => PolicyTotal
    /\ solver = "PI" => PolicyTotal

\* Q-learning returned its policy after an episode that reached a terminal
\* state
C10_Witness ==
    /\ solver = "QL" /\ pc = "done" /\ episode >= 1
    /\ \E st \in StateSet(mdp) : \E i \in DOMAIN Q[st] : Q[st][i] # 0

\* the states whose action differs between the policies old and new
ChangedStates(old, new) == {st \in StateSet(mdp) : old[st] # new[st]}

\* sum over allowed_states[1..i] of the distance between old and new actions
RECURSIVE SumDistance(_, _, _)
SumDistance(old, new, i) ==
    IF i = 0 THEN 0
    ELSE LET st == get_allowed_states(mdp)[i]
             d == IF old[st] < new[st] THEN new[st] - old[st] ELSE old[st] - new[st]
         IN  SumDistance(old, new, i - 1) + d

\* C11: an improvement pass of policy iteration records the sum over the
\* states of |old action - new action| divided by the number of states; that
\* number is zero exactly when the pass changed no state's action, and the
\* outer loop stops after the pass exactly in that case (otherwise it goes
\* round again), so differences never cancel into a premature stop.
C11_StopsIffNoActionChanged ==
    [][(solver = "PI" /\ pc = "update") =>
        LET recorded == mean_policy_changes'[Len(mean_policy_changes')]
            n == Len(get_allowed_states(mdp))
        IN  /\ Len(mean_policy_changes') = Len(mean_policy_changes) + 1
            /\ recorded = (SumDistance(policy, policy', n) * Scale) \div n
            /\ (recorded = 0) <=> (ChangedStates(policy, policy') = {})
            /\ (pc' = "done") <=> (ChangedStates(policy, policy') = {})
            /\ (pc' = "call") <=> (ChangedStates(policy, policy') # {})]_vars

\* an improvement pass changed some action and the loop went round again,
\* then a later pass changed none and the loop stopped
C11_Witness ==
    /\ solver = "PI" /\ pc = "done"
    /\ Len(mean_policy_changes) >= 2
    /\ mean_policy_changes[1] > 0
    /\ mean_policy_changes[Len(mean_policy_changes)] = 0

\* the backup the DP solvers make of a terminal state gives 0 from the value
\* table Vf, whatever the action
TerminalBackupIsZero(Vf) ==
    \A t \in get_terminal_states(mdp) : \A a \in ActionSet(mdp) : Q_value(Vf, t, a) = 0

\* C12: the table entry of every terminal state is zero in every reachable
\* state of every solver: V(terminal) = 0 after every sweep of value iteration
\* and of policy evaluation, every element of the Q row of a terminal state is
\* 0 throughout Q-learning, and the TD update is never applied with a
\* terminal state as the current state. On both environments the backup of a
\* terminal state is 0 from the value table Q-learning ends with.
C12_TerminalEntriesStayZero ==
    /\ (solver \in {"VI", "PI"} /\ V # <<>>) =>
            \A t \in get_terminal_states(mdp) : V[t] = 0
    /\ solver = "QL" =>
            /\ \A t \in get_terminal_states(mdp) : \A i \in DOMAIN Q[t] : Q[t][i] = 0
            /\ pc = "while" => ~Ended(cur_s)
            /\ pc = "done" => \E Vf \in {get_V(Q)} : TerminalBackupIsZero(Vf)

\* value iteration has backed up the terminal states from a value table in
\* which their neighbours are not zero
C12_Witness ==
    /\ solver = "VI" /\ sweeps >= 2
    /\ V[<<0, 3>>] # 0 /\ V[<<3, 3>>] # 0

\* e multiplied by 0.9995 k times
RECURSIVE DecayedTimes(_, _)
DecayedTimes(e, k) ==
    IF k = 0 THEN e ELSE (1999 * DecayedTimes(e, k - 1)) \div 2000

\* C13: in Q-learning, once k episodes have started the exploration
\* probability is its initial value multiplied by 0.9995 exactly k times,
\* however many transitions those episodes took: the start of an episode
\* multiplies it once, before the environment is reset (the environment is
\* untouched by that step and reset comes next), and no other step of the run,
\* an environment transition in particular, changes it.
C13_DecayOncePerEpisode ==
    /\ [](solver = "QL" =>
            /\ \E e0 \in EpsInits : eps = DecayedTimes(e0, episode)
            /\ pc = "reset" => episode >= 1)
    /\ [][solver = "QL" =>
            /\ episode' \in {episode, episode + 1}
            /\ episode' = episode + 1 =>
                    /\ eps' = (1999 * eps) \div 2000
                    /\ Cur' = Cur /\ steps' = steps
                    /\ pc' = "reset"
            /\ episode' = episode => eps' = eps
            /\ pc = "reset" => (Cur' = StartState(mdp) /\ pc' = "while")]_vars

\* the second episode has started after a first episode of several
\* transitions
C13_Witness ==
    /\ solver = "QL" /\ episode = 2 /\ steps >= 3 /\ pc = "while"
    /\ \E e0 \in EpsInits : eps = DecayedTimes(e0, 2) /\ eps < e0

\* C14 (as claimed): a Q-learning run with episode budget N always
\* terminates: it comes to return the greedy policy, having started N
\* episodes, each with one reset.
C14_AlwaysTerminates ==
    <>(solver = "QL" /\ pc = "done" /\ episode = num_episodes /\ PolicyTotal)

\* C15 (as claimed): for every non-terminal allowed state s, declared action
\* a and allowed state s', get_transition_prob(s, a, s') is the probability
\* with which step(a) taken in s returns s'.
C15_ModelAgreesWithSimulator ==
    (probe.done /\ probe.s \notin get_terminal_states(probe.m)
        /\ probe.a \in ActionSet(probe.m)) => probe.mismatch = {}

====
